---- MODULE Spec2Model ----
(***************************************************************************)
(* opensource::cpp::ThreadPool (include/threadpool_V1.h,                   *)
(* src/threadpool_V1.cpp) as a state machine.                              *)
(*                                                                         *)
(* Threads: the workers spawned by start(), each running run(), and the    *)
(* callers, each invoking the public operations one after another.  Every  *)
(* critical section under mutex_ is one step; a wait on condition_ gives   *)
(* the mutex up, so it is a position of its own ("waiting"), left by a     *)
(* notification, a spurious wake-up or (wait_for) a timeout, after which   *)
(* the predicate is evaluated again under the mutex ("woken").             *)
(***************************************************************************)
EXTENDS Integers, Sequences, FiniteSets, TLC

\* ---------------------------------------------------------------- bounds
MaxThreads == 2      \* largest thread count a caller passes to init()
MaxTasks   == 2      \* exec() calls over the life of the pool
NumCallers == 2      \* threads that call the public operations
MaxTicks   == 2      \* milliseconds the clock advances (specifications with Tick)

\* The value getNowMs() returned when the pool was constructed: the member
\* TNOWMS is const and is initialised once.
TNOWMS == 100

Workers      == 1..MaxThreads
Callers      == 1..NumCallers
InitArgs     == 0..MaxThreads     \* init(num)
ExecTimeouts == {-1, 0}           \* exec(timeoutMs, ...); exec(f) is timeoutMs = 0
TimedTimeouts == {0, 1}           \* the same, where the clock advances
NoTimeout    == {0}               \* the same, under fair scheduling
WaitArgs     == {-1, 0}           \* waitForAllDone(millsecond)

VARIABLES
    tasks_,       \* queue<TaskFuncPtr>: the ids of the queued envelopes
    threads_,     \* vector<thread>: [w |-> worker, joinable |-> BOOLEAN]
    threadNum_,   \* size_t threadNum_
    bTerminate_,  \* bool bTerminate_
    atomic_,      \* atomic<int> atomic_
    wpc,          \* each worker's position in run()/get()
    wtask,        \* each worker's local TaskFuncPtr task (0: null)
    cpc,          \* each caller's position
    cop,          \* the operation a caller is in, or has just returned from
    carg,         \* its argument (init: num, waitForAllDone: millsecond) or
                  \* local (terminate: the loop index i)
    cret,         \* the value returned ("ret" position)
    clock,        \* what getNowMs() would return now
    aborted,      \* std::terminate() was called: the process is gone
    pushed,       \* history: every envelope made by exec, in push order
    dequeued,     \* history: every dequeue by get(), in order
    invoked,      \* history: per envelope, how often _func was called
    handle,       \* history: per envelope, the outcomes written to its future
    startedWith,  \* history: the worker count of the last start() that returned
                  \* true; -1 before it, and again once a terminate() call
                  \* has set the flag or cleared the list since
    termDone,     \* history: terminate() calls that have returned since the
                  \* last start() that returned true (counted to 2)
    joinCalls     \* history: per worker, the join() calls made on its handle
                  \* since start() spawned it (counted to 2)

poolVars   == <<tasks_, threads_, threadNum_, bTerminate_, atomic_>>
workerVars == <<wpc, wtask>>
callerVars == <<cpc, cop, carg, cret>>
histVars   == <<pushed, dequeued, invoked, handle>>
lifeVars   == <<startedWith, termDone, joinCalls>>
vars == <<tasks_, threads_, threadNum_, bTerminate_, atomic_, wpc, wtask,
          cpc, cop, carg, cret, clock, aborted, pushed, dequeued, invoked, handle,
          startedWith, termDone, joinCalls>>

\* ------------------------------------------------------------- helpers

\* exec: int64_t expireTime = (timeoutMs == 0 ? 0 : TNOWMS + timeoutMs)
ExpireTime(timeoutMs) == IF timeoutMs = 0 THEN 0 ELSE TNOWMS + timeoutMs

\* run: task->_expireTime != 0 && task->_expireTime < TNOWMS
Expired(expireTime) == expireTime # 0 /\ expireTime < TNOWMS

\* A faulty get: it takes the newest envelope instead of the oldest.
BackTask(q) == q[Len(q)]

\* get: task = std::move(tasks_.front())
FrontTask(q) == Head(q)

\* A faulty get: it leaves the envelope in the queue.
KeepTask(q) == q

\* get: tasks_.pop()
PopTask(q) == Tail(q)

\* A faulty run: the pool is never found idle after an envelope.
NeverIdle == FALSE

\* run, after --atomic_: if (atomic_ == 0 && tasks_.empty())
PoolIdle == atomic_ = 0 /\ tasks_ = <<>>

\* A faulty run: the loop never sees the shutdown flag.
isTerminateNever == FALSE

\* A faulty run: the loop is also left on an empty queue.
isTerminateOrIdle == bTerminate_ \/ tasks_ = <<>>

\* bool isTerminate() { return bTerminate_; }, read without the mutex
isTerminate == bTerminate_

\* A faulty task wrapper: an exception of the bound function is not stored.
DropFailure(h, outcome) == IF outcome = "failure" THEN h ELSE Append(h, outcome)

\* exec: (*task)() of the packaged_task stores the value the bound function
\* returns, or the exception it throws, in the shared state of the future.
StoreOutcome(h, outcome) == Append(h, outcome)

\* A faulty get: the test of the shutdown flag after the wait is missing.
GetRefusesEmpty(term, q) == q = <<>>

\* get, after the wait: if (bTerminate_) return false; on an empty queue
\* return false as well.
GetRefuses(term, q) == term \/ q = <<>>

\* get: the predicate of condition_.wait
GetPredicate == bTerminate_ \/ tasks_ # <<>>

\* waitForAllDone: the predicate of condition_.wait / wait_for
DonePredicate(q, inflight) == q = <<>>

\* A faulty init/start: the test for existing workers is missing.
AlwaysNoThreads(th) == TRUE

\* init, start: if (!threads_.empty()) return false
NoThreads(th) == th = <<>>

\* A faulty start: the spawn loop stops one short.
SpawnOneLess(n) == [i \in 1..(n - 1) |-> [w |-> i, joinable |-> TRUE]]

\* start: the loop that spawns threadNum_ workers
SpawnThreads(n) == [i \in 1..n |-> [w |-> i, joinable |-> TRUE]]

\* A faulty join: it does not wait for the worker.
JoinNoWait(wp) == TRUE

\* thread::join returns once the thread function run() has returned.
Joined(wp) == wp = "exited"

\* A faulty terminate: the joined handles stay in the list.
KeepThreads(th) == th

\* terminate: threads_.clear()
ClearThreads(th) == <<>>

\* getThreadNum(): threads_.size() under the mutex
getThreadNum == Len(threads_)

\* getJobNum(): tasks_.size() under the mutex
getJobNum == Len(tasks_)

\* The threads blocked in a wait on condition_.
CvWaiters ==
    {<<"w", w>> : w \in {x \in Workers : wpc[x] = "waiting"}}
    \cup {<<"c", c>> : c \in {x \in Callers : cpc[x] = "wfad_wait"}}

\* A faulty exec: the notification is missing.
NotifyNone(ws) == {{}}

\* notify_one wakes one of the waiting threads (none if none waits);
\* notify_all wakes them all.  Each gives the sets of threads it may wake.
NotifyOne(ws) == IF ws = {} THEN {{}} ELSE {{t} : t \in ws}
NotifyAll(ws) == {ws}

WakeW(S, wp) == [w \in Workers |-> IF <<"w", w>> \in S THEN "woken" ELSE wp[w]]
WakeC(S, cp) == [c \in Callers |-> IF <<"c", c>> \in S THEN "wfad_woken" ELSE cp[c]]

\* ---------------------------------------------------------------- Init
\* ThreadPool(): threadNum_(1), bTerminate_(false), atomic_{0}
Init ==
    /\ tasks_ = <<>>
    /\ threads_ = <<>>
    /\ threadNum_ = 1
    /\ bTerminate_ = FALSE
    /\ atomic_ = 0
    /\ wpc = [w \in Workers |-> "none"]
    /\ wtask = [w \in Workers |-> 0]
    /\ cpc = [c \in Callers |-> "idle"]
    /\ cop = [c \in Callers |-> "none"]
    /\ carg = [c \in Callers |-> 0]
    /\ cret = [c \in Callers |-> FALSE]
    /\ clock = TNOWMS
    /\ aborted = FALSE
    /\ pushed = <<>>
    /\ dequeued = <<>>
    /\ invoked = <<>>
    /\ handle = <<>>
    /\ startedWith = -1
    /\ termDone = 0
    /\ joinCalls = [w \in Workers |-> 0]

\* ------------------------------------------------------------- workers

\* run: while (!isTerminate())
WorkerLoop(w) ==
    /\ ~aborted
    /\ wpc[w] = "loop"
    /\ wpc' = [wpc EXCEPT ![w] = IF isTerminate THEN "exited" ELSE "get"]
    /\ UNCHANGED <<poolVars, wtask, callerVars, clock, aborted, histVars, lifeVars>>

\* get, after the wait: return false when terminating, else pop the front.
GetTail(w) ==
    IF GetRefuses(bTerminate_, tasks_)
    THEN /\ wpc' = [wpc EXCEPT ![w] = "loop"]
         /\ UNCHANGED <<tasks_, wtask, dequeued>>
    ELSE /\ wtask' = [wtask EXCEPT ![w] = FrontTask(tasks_)]
         /\ tasks_' = PopTask(tasks_)
         /\ dequeued' = Append(dequeued, [task |-> FrontTask(tasks_), at |-> clock])
         /\ wpc' = [wpc EXCEPT ![w] = "inc"]

\* get: lock; if the queue is empty and the pool is not terminating, wait.
WorkerGet(w) ==
    /\ ~aborted
    /\ wpc[w] = "get"
    /\ IF tasks_ = <<>> /\ ~GetPredicate
       THEN /\ wpc' = [wpc EXCEPT ![w] = "waiting"]
            /\ UNCHANGED <<tasks_, wtask, dequeued>>
       ELSE GetTail(w)
    /\ UNCHANGED <<threads_, threadNum_, bTerminate_, atomic_, callerVars, clock,
                   aborted, pushed, invoked, handle, lifeVars>>

\* get: a woken worker takes the mutex again and evaluates the predicate.
WorkerWake(w) ==
    /\ ~aborted
    /\ wpc[w] = "woken"
    /\ IF ~GetPredicate
       THEN /\ wpc' = [wpc EXCEPT ![w] = "waiting"]
            /\ UNCHANGED <<tasks_, wtask, dequeued>>
       ELSE GetTail(w)
    /\ UNCHANGED <<threads_, threadNum_, bTerminate_, atomic_, callerVars, clock,
                   aborted, pushed, invoked, handle, lifeVars>>

\* run: ++atomic_, then the expiry test: an expired envelope is dropped, any
\* other has its _func called.
WorkerBegin(w) ==
    /\ ~aborted
    /\ wpc[w] = "inc"
    /\ atomic_' = atomic_ + 1
    /\ IF Expired(pushed[wtask[w]].expireTime)
       THEN /\ wpc' = [wpc EXCEPT ![w] = "dec"]
            /\ UNCHANGED invoked
       ELSE /\ wpc' = [wpc EXCEPT ![w] = "running"]
            /\ invoked' = [invoked EXCEPT ![wtask[w]] = @ + 1]
    /\ UNCHANGED <<tasks_, threads_, threadNum_, bTerminate_, wtask, callerVars,
                   clock, aborted, pushed, dequeued, handle, lifeVars>>

\* _func returns: the packaged_task stores the bound function's value, or the
\* exception it threw, in the shared state of the future.
WorkerFinish(w) ==
    /\ ~aborted
    /\ wpc[w] = "running"
    /\ \E outcome \in {"value", "failure"} :
          handle' = [handle EXCEPT ![wtask[w]] = StoreOutcome(@, outcome)]
    /\ wpc' = [wpc EXCEPT ![w] = "dec"]
    /\ UNCHANGED <<poolVars, wtask, callerVars, clock, aborted, pushed, dequeued, invoked, lifeVars>>

\* run: --atomic_
WorkerDec(w) ==
    /\ ~aborted
    /\ wpc[w] = "dec"
    /\ atomic_' = atomic_ - 1
    /\ wpc' = [wpc EXCEPT ![w] = "notify"]
    /\ UNCHANGED <<tasks_, threads_, threadNum_, bTerminate_, wtask, callerVars,
                   clock, aborted, histVars, lifeVars>>

\* run: lock; if (atomic_ == 0 && tasks_.empty()) condition_.notify_all()
WorkerNotify(w) ==
    /\ ~aborted
    /\ wpc[w] = "notify"
    /\ \E S \in (IF PoolIdle THEN NotifyAll(CvWaiters) ELSE {{}}) :
          /\ wpc' = [WakeW(S, wpc) EXCEPT ![w] = "loop"]
          /\ cpc' = WakeC(S, cpc)
    /\ wtask' = [wtask EXCEPT ![w] = 0]
    /\ UNCHANGED <<poolVars, cop, carg, cret, clock, aborted, histVars, lifeVars>>

\* ------------------------------------------------------------- callers

\* bool init(size_t num)
CallInit(c, num) ==
    /\ ~aborted
    /\ cpc[c] = "idle"
    /\ IF ~NoThreads(threads_)
       THEN /\ cret' = [cret EXCEPT ![c] = FALSE]
            /\ UNCHANGED threadNum_
       ELSE /\ threadNum_' = num
            /\ cret' = [cret EXCEPT ![c] = TRUE]
    /\ cpc' = [cpc EXCEPT ![c] = "ret"]
    /\ cop' = [cop EXCEPT ![c] = "init"]
    /\ carg' = [carg EXCEPT ![c] = num]
    /\ UNCHANGED <<tasks_, threads_, bTerminate_, atomic_, workerVars, clock,
                   aborted, histVars, lifeVars>>

\* bool start()
CallStart(c) ==
    /\ ~aborted
    /\ cpc[c] = "idle"
    /\ IF ~NoThreads(threads_)
       THEN /\ cret' = [cret EXCEPT ![c] = FALSE]
            /\ UNCHANGED <<threads_, wpc, lifeVars>>
       ELSE /\ threads_' = SpawnThreads(threadNum_)
            /\ wpc' = [w \in Workers |->
                         IF \E i \in 1..Len(threads_') : threads_'[i].w = w
                         THEN "loop" ELSE wpc[w]]
            /\ cret' = [cret EXCEPT ![c] = TRUE]
            /\ startedWith' = threadNum_
            /\ termDone' = 0
            /\ joinCalls' = [w \in Workers |-> 0]
    /\ cpc' = [cpc EXCEPT ![c] = "ret"]
    /\ cop' = [cop EXCEPT ![c] = "start"]
    /\ UNCHANGED <<tasks_, threadNum_, bTerminate_, atomic_, wtask, carg, clock,
                   aborted, histVars>>

\* exec(timeoutMs, f, args...): make the envelope, push it under the mutex,
\* notify_one, return the future.
CallExec(c, timeoutMs) ==
    /\ ~aborted
    /\ cpc[c] = "idle"
    /\ Len(pushed) < MaxTasks
    /\ pushed' = Append(pushed, [expireTime |-> ExpireTime(timeoutMs),
                                 timeoutMs |-> timeoutMs, submitAt |-> clock])
    /\ invoked' = Append(invoked, 0)
    /\ handle' = Append(handle, <<>>)
    /\ tasks_' = Append(tasks_, Len(pushed) + 1)
    /\ \E S \in NotifyOne(CvWaiters) :
          /\ wpc' = WakeW(S, wpc)
          /\ cpc' = WakeC(S, cpc)
    /\ UNCHANGED <<threads_, threadNum_, bTerminate_, atomic_, wtask, cop, carg, cret,
                   clock, aborted, dequeued, lifeVars>>

\* waitForAllDone(millsecond): lock; return true on an empty queue, else wait
\* (the predicate is false here, so the wait is entered).
CallWait(c, millsecond) ==
    /\ ~aborted
    /\ cpc[c] = "idle"
    /\ cop' = [cop EXCEPT ![c] = "wfad"]
    /\ carg' = [carg EXCEPT ![c] = millsecond]
    /\ IF tasks_ = <<>>
       THEN /\ cpc' = [cpc EXCEPT ![c] = "ret"]
            /\ cret' = [cret EXCEPT ![c] = TRUE]
       ELSE /\ cpc' = [cpc EXCEPT ![c] = "wfad_wait"]
            /\ UNCHANGED cret
    /\ UNCHANGED <<poolVars, workerVars, clock, aborted, histVars, lifeVars>>

\* waitForAllDone: a woken waiter takes the mutex again and evaluates the
\* predicate; wait returns once it holds.
WaitWake(c) ==
    /\ ~aborted
    /\ cpc[c] = "wfad_woken"
    /\ IF DonePredicate(tasks_, atomic_)
       THEN /\ cpc' = [cpc EXCEPT ![c] = "ret"]
            /\ cret' = [cret EXCEPT ![c] = TRUE]
       ELSE /\ cpc' = [cpc EXCEPT ![c] = "wfad_wait"]
            /\ UNCHANGED cret
    /\ UNCHANGED <<poolVars, workerVars, cop, carg, clock, aborted, histVars, lifeVars>>

\* waitForAllDone(millsecond >= 0): wait_for times out and returns what the
\* predicate is then.
WaitTimeout(c) ==
    /\ ~aborted
    /\ cpc[c] = "wfad_wait"
    /\ carg[c] >= 0
    /\ cpc' = [cpc EXCEPT ![c] = "ret"]
    /\ cret' = [cret EXCEPT ![c] = DonePredicate(tasks_, atomic_)]
    /\ UNCHANGED <<poolVars, workerVars, cop, carg, clock, aborted, histVars, lifeVars>>

\* terminate: { lock; bTerminate_ = true; condition_.notify_all(); }
CallTerminate(c) ==
    /\ ~aborted
    /\ cpc[c] = "idle"
    /\ bTerminate_' = TRUE
    /\ \E S \in NotifyAll(CvWaiters) :
          /\ wpc' = WakeW(S, wpc)
          /\ cpc' = [WakeC(S, cpc) EXCEPT ![c] = "term_join"]
    /\ cop' = [cop EXCEPT ![c] = "terminate"]
    /\ carg' = [carg EXCEPT ![c] = 0]
    /\ startedWith' = -1
    /\ UNCHANGED <<tasks_, threads_, threadNum_, atomic_, wtask, cret, clock,
                   aborted, histVars, termDone, joinCalls>>

\* terminate: one turn of for (i = 0; i < threads_.size(); i++), read without
\* the mutex: a joinable threads_[i] has join() called on it, any other is
\* passed over; after the last, the loop is left.
TerminateJoin(c) ==
    /\ ~aborted
    /\ cpc[c] = "term_join"
    /\ IF carg[c] < Len(threads_)
       THEN IF threads_[carg[c] + 1].joinable
            THEN /\ cpc' = [cpc EXCEPT ![c] = "term_joining"]
                 /\ joinCalls' = [joinCalls EXCEPT ![threads_[carg[c] + 1].w] =
                                     IF @ < 2 THEN @ + 1 ELSE @]
                 /\ UNCHANGED carg
            ELSE /\ carg' = [carg EXCEPT ![c] = @ + 1]
                 /\ UNCHANGED <<cpc, joinCalls>>
       ELSE /\ cpc' = [cpc EXCEPT ![c] = "term_clear"]
            /\ UNCHANGED <<carg, joinCalls>>
    /\ UNCHANGED <<poolVars, workerVars, cop, cret, clock, aborted, histVars,
                   startedWith, termDone>>

\* terminate: threads_[i].join() comes back.  The only join() on a live
\* handle returns when its worker has left run(), and the handle is no longer
\* joinable.  A join() on a handle that another thread joins too, or that
\* clear() has destroyed or start() replaced meanwhile, is undefined: it
\* returns like the first (waiting for the worker where one is left), or it
\* throws std::system_error and terminate() is left through the exception.
TerminateJoined(c) ==
    /\ ~aborted
    /\ cpc[c] = "term_joining"
    /\ LET i == carg[c] + 1
           here == i <= Len(threads_)
           returns == /\ here => Joined(wpc[threads_[i].w])
                      /\ threads_' = IF here THEN [threads_ EXCEPT ![i].joinable = FALSE]
                                     ELSE threads_
                      /\ carg' = [carg EXCEPT ![c] = i]
                      /\ cpc' = [cpc EXCEPT ![c] = "term_join"]
                      /\ UNCHANGED cret
           throws ==  /\ cpc' = [cpc EXCEPT ![c] = "ret"]
                      /\ cret' = [cret EXCEPT ![c] = FALSE]
                      /\ UNCHANGED <<threads_, carg>>
       IN  IF here /\ threads_[i].joinable /\ joinCalls[threads_[i].w] = 1
           THEN returns
           ELSE returns \/ throws
    /\ UNCHANGED <<tasks_, threadNum_, bTerminate_, atomic_, workerVars, cop,
                   clock, aborted, histVars, lifeVars>>

\* terminate: lock; threads_.clear().  Destroying a std::thread that is
\* still joinable calls std::terminate().
TerminateClear(c) ==
    /\ ~aborted
    /\ cpc[c] = "term_clear"
    /\ aborted' = (\E i \in 1..Len(threads_) : threads_[i].joinable)
    /\ threads_' = ClearThreads(threads_)
    /\ cpc' = [cpc EXCEPT ![c] = "ret"]
    /\ termDone' = IF termDone < 2 THEN termDone + 1 ELSE termDone
    /\ startedWith' = -1
    /\ UNCHANGED <<tasks_, threadNum_, bTerminate_, atomic_, workerVars, cop, carg,
                   cret, clock, histVars, joinCalls>>

\* The operation returns to its caller.
Return(c) ==
    /\ ~aborted
    /\ cpc[c] = "ret"
    /\ cpc' = [cpc EXCEPT ![c] = "idle"]
    /\ cop' = [cop EXCEPT ![c] = "none"]
    /\ carg' = [carg EXCEPT ![c] = 0]
    /\ cret' = [cret EXCEPT ![c] = FALSE]
    /\ UNCHANGED <<poolVars, workerVars, clock, aborted, histVars, lifeVars>>

\* --------------------------------------------------------- environment

\* condition_variable::wait may wake up spuriously.
SpuriousWake ==
    /\ ~aborted
    /\ \E t \in CvWaiters :
          /\ wpc' = WakeW({t}, wpc)
          /\ cpc' = WakeC({t}, cpc)
    /\ UNCHANGED <<poolVars, wtask, cop, carg, cret, clock, aborted, histVars, lifeVars>>

\* A millisecond passes.
Tick ==
    /\ ~aborted
    /\ clock < TNOWMS + MaxTicks
    /\ clock' = clock + 1
    /\ UNCHANGED <<poolVars, workerVars, callerVars, aborted, histVars, lifeVars>>

\* ---------------------------------------------------------------- Next
WorkerStep(w) ==
    \/ WorkerLoop(w)
    \/ WorkerGet(w)
    \/ WorkerWake(w)
    \/ WorkerBegin(w)
    \/ WorkerFinish(w)
    \/ WorkerDec(w)
    \/ WorkerNotify(w)

\* What a caller does apart from terminate(); TS: the timeouts it passes to exec.
CallerStep(c, TS) ==
    \/ \E num \in InitArgs : CallInit(c, num)
    \/ CallStart(c)
    \/ \E timeoutMs \in TS : CallExec(c, timeoutMs)
    \/ \E millsecond \in WaitArgs : CallWait(c, millsecond)
    \/ WaitWake(c)
    \/ WaitTimeout(c)
    \/ Return(c)

TerminateStep(c) ==
    \/ CallTerminate(c)
    \/ TerminateJoin(c)
    \/ TerminateJoined(c)
    \/ TerminateClear(c)

\* Any number of callers, on any schedule.
Next ==
    \/ \E w \in Workers : WorkerStep(w)
    \/ \E c \in Callers : CallerStep(c, ExecTimeouts)
    \/ \E c \in Callers : TerminateStep(c)
    \/ SpuriousWake

Spec == Init /\ [][Next]_vars

\* One caller: the operations are called one after another.
SeqNext ==
    \/ \E w \in Workers : WorkerStep(w)
    \/ CallerStep(1, ExecTimeouts)
    \/ TerminateStep(1)
    \/ SpuriousWake

SeqSpec == Init /\ [][SeqNext]_vars

\* One caller, positive timeouts, and a clock that advances.
TimedNext ==
    \/ \E w \in Workers : WorkerStep(w)
    \/ CallerStep(1, TimedTimeouts)
    \/ TerminateStep(1)
    \/ SpuriousWake
    \/ Tick

TimedSpec == Init /\ [][TimedNext]_vars

\* ------------------------------------------------------------ fairness
\* Every thread that can take a step is scheduled; a call that is under way
\* goes on (a woken waiter retakes the mutex, wait_for times out, a join whose
\* worker has exited returns).  Nothing makes a caller start a new call, and
\* nothing makes a wait wake up spuriously.
CallerContinue(c) ==
    \/ WaitWake(c)
    \/ WaitTimeout(c)
    \/ Return(c)
    \/ TerminateJoin(c)
    \/ TerminateJoined(c)
    \/ TerminateClear(c)

Fairness ==
    /\ \A w \in Workers : WF_vars(WorkerStep(w))
    /\ \A c \in Callers : WF_vars(CallerContinue(c))

\* Any number of callers, under fair scheduling; every exec is without timeout.
FairNext ==
    \/ \E w \in Workers : WorkerStep(w)
    \/ \E c \in Callers : CallerStep(c, NoTimeout)
    \/ \E c \in Callers : TerminateStep(c)
    \/ SpuriousWake

FairSpec == Init /\ [][FairNext]_vars /\ Fairness

\* The same where terminate() is never called.
NoTermNext ==
    \/ \E w \in Workers : WorkerStep(w)
    \/ \E c \in Callers : CallerStep(c, NoTimeout)
    \/ SpuriousWake

NoTermSpec == Init /\ [][NoTermNext]_vars /\ Fairness

\* ================================================================ claims

\* A worker that has dequeued an envelope and not yet finished with its action.
InFlight(w) == wpc[w] \in {"inc", "running"}

\* The step in which caller c's init() / start() runs and reaches its return.
InitReturns(c)  == cpc[c] = "idle" /\ cpc'[c] = "ret" /\ cop'[c] = "init"
StartReturns(c) == cpc[c] = "idle" /\ cpc'[c] = "ret" /\ cop'[c] = "start"

\* The step in which caller c's waitForAllDone() reaches its return.
WaitReturns(c) == cpc[c] # "ret" /\ cpc'[c] = "ret" /\ cop'[c] = "wfad"

\* C1: envelopes leave the queue in the order they were pushed: an envelope's
\* id is its place in the push order, and when envelope b is dequeued every
\* envelope pushed before b has been dequeued earlier, each exactly in turn.
C1_FifoDequeue ==
    \A j \in 1..Len(dequeued) :
        /\ \A a \in 1..(dequeued[j].task - 1) :
              \E i \in 1..(j - 1) : dequeued[i].task = a
        /\ \A i \in 1..(j - 1) : dequeued[i].task < dequeued[j].task

\* C1 witness: both envelopes were dequeued, by different workers, and both
\* workers still hold them (completion order is open).
C1_Witness ==
    /\ Len(dequeued) = 2
    /\ wtask[1] = 2 /\ wtask[2] = 1
    /\ wpc[1] = "running" /\ wpc[2] = "running"

\* C2: no envelope is dequeued twice or held by two workers, its action is
\* invoked at most once, and its future gets at most one outcome: none before
\* the action has run, exactly one once the action has returned.
C2_RunAtMostOnce ==
    \A t \in 1..Len(pushed) :
        /\ Cardinality({i \in 1..Len(dequeued) : dequeued[i].task = t}) <= 1
        /\ Cardinality({w \in Workers : wtask[w] = t}) <= 1
        /\ invoked[t] <= 1
        /\ Len(handle[t]) <= invoked[t]
        /\ (invoked[t] = 1 /\ ~(\E w \in Workers : wtask[w] = t /\ wpc[w] = "running"))
               => Len(handle[t]) = 1

\* C2 witness: two workers ran one envelope each; one wrote a value, the other
\* a failure.
C2_Witness ==
    /\ Len(pushed) = 2
    /\ invoked = <<1, 1>>
    /\ handle = <<<<"value">>, <<"failure">>>>
    /\ wtask[1] # 0 /\ wtask[2] # 0

\* C8 as claimed: on a fresh pool start() returns true and leaves exactly
\* threadNum_ (the k of init(k)) workers; any start() after a start() that
\* returned true (and before terminate()) returns false and leaves the worker
\* count as it was.
C8_Original ==
    [][\A c \in Callers : StartReturns(c) =>
          /\ (startedWith = -1 /\ ~bTerminate_) =>
                 (cret'[c] = TRUE /\ getThreadNum' = threadNum_)
          /\ startedWith >= 0 =>
                 (cret'[c] = FALSE /\ getThreadNum' = getThreadNum)]_vars

\* C8 amended: the same for k >= 1; after init(0) and start() no worker
\* exists, and a further start() returns true and spawns the configured count.
C8_StartOnce ==
    [][\A c \in Callers : StartReturns(c) =>
          /\ (startedWith = -1 /\ ~bTerminate_) =>
                 (cret'[c] = TRUE /\ getThreadNum' = threadNum_)
          /\ startedWith >= 1 =>
                 (cret'[c] = FALSE /\ getThreadNum' = getThreadNum)
          /\ startedWith = 0 =>
                 (cret'[c] = TRUE /\ getThreadNum' = threadNum_)]_vars

\* C8 witness: a second start() has returned false on a pool of two workers.
C8_Witness ==
    \E c \in Callers :
        /\ cpc[c] = "ret" /\ cop[c] = "start" /\ cret[c] = FALSE
        /\ startedWith = 2 /\ getThreadNum = 2

\* C9: init(n) with workers present returns false and changes neither the
\* thread count, the worker list, the queue nor the shutdown flag; with no
\* worker it returns true and changes the thread count, to n, and nothing else.
C9_InitGuard ==
    [][\A c \in Callers : InitReturns(c) =>
          IF threads_ # <<>>
          THEN /\ cret'[c] = FALSE
               /\ UNCHANGED <<threadNum_, threads_, tasks_, bTerminate_>>
          ELSE /\ cret'[c] = TRUE
               /\ threadNum_' = carg'[c]
               /\ UNCHANGED <<threads_, tasks_, bTerminate_, atomic_, wpc, wtask>>]_vars

\* C9 witness: init(n) with n other than the configured count has returned
\* false on a started pool with a queued envelope.
C9_Witness ==
    \E c \in Callers :
        /\ cpc[c] = "ret" /\ cop[c] = "init" /\ cret[c] = FALSE
        /\ carg[c] # threadNum_ /\ threads_ # <<>> /\ tasks_ # <<>>

\* C4 as claimed: waitForAllDone(millsecond < 0) returns (true) only when the
\* queue is empty and no dequeued envelope is still waiting for, or in, its
\* action.
C4_WaitMeansAllDone ==
    [][\A c \in Callers :
          (WaitReturns(c) /\ carg'[c] < 0) =>
              (cret'[c] = TRUE /\ tasks_ = <<>> /\ ~(\E w \in Workers : InFlight(w)))]_vars

\* C5 as claimed: waitForAllDone(0) returns true exactly when the queue is
\* empty and no envelope is in flight, and false when an envelope is still
\* queued or in flight.
C5_ZeroWaitSeesRunning ==
    [][\A c \in Callers :
          (WaitReturns(c) /\ carg'[c] = 0) =>
              (cret'[c] = TRUE <=>
                  (tasks_ = <<>> /\ ~(\E w \in Workers : InFlight(w))))]_vars

\* C7 as claimed: an envelope pushed with timeoutMs = T > 0 and dequeued more
\* than T milliseconds later never has its action invoked and never gets a
\* value.
C7_LateIsDiscarded ==
    \A i \in 1..Len(dequeued) :
        LET t == dequeued[i].task
            e == pushed[t]
        IN  (e.timeoutMs > 0 /\ dequeued[i].at - e.submitAt > e.timeoutMs)
                => (invoked[t] = 0 /\ \A k \in 1..Len(handle[t]) : handle[t][k] # "value")

\* A terminate() call of caller c that is held up in join().
JoinBlocked(c) ==
    /\ cpc[c] = "term_joining"
    /\ carg[c] < Len(threads_)
    /\ ~Joined(wpc[threads_[carg[c] + 1].w])

\* C10: with the operations called one after another, once a terminate() has
\* returned (and until start() is called again) getThreadNum() is 0, the
\* process has not been aborted, and a further terminate() is never held up
\* in a join.
C10_TerminateTwice ==
    termDone >= 1 =>
        /\ getThreadNum = 0
        /\ ~aborted
        /\ \A c \in Callers : ~JoinBlocked(c)

\* C10 witness: the second terminate() in a row has returned, on a pool whose
\* workers the first one joined.
C10_Witness ==
    /\ termDone = 2
    /\ cpc[1] = "ret" /\ cop[1] = "terminate"
    /\ wpc[1] = "exited" /\ wpc[2] = "exited"
    /\ tasks_ # <<>>

\* Envelope t has been pushed, with timeoutMs = 0.
PushedNoTimeout(t) == IF t <= Len(pushed) THEN pushed[t].timeoutMs = 0 ELSE FALSE

\* The action of envelope t was invoked and its future holds the outcome.
Fulfilled(t) == IF t <= Len(pushed) THEN invoked[t] = 1 /\ Len(handle[t]) = 1 ELSE FALSE

\* C3: where terminate() is never called and every action returns, from the
\* moment an envelope with timeoutMs = 0 is in the pool and the pool has at
\* least one worker (whichever of push and start() came first), the
\* envelope's action is eventually run and its future fulfilled.
C3_SubmittedRuns ==
    \A t \in 1..MaxTasks :
        (PushedNoTimeout(t) /\ threads_ # <<>>) ~> Fulfilled(t)

\* C3 witness: the second envelope, pushed with no timeout, has been run and
\* its future fulfilled while a caller of waitForAllDone(-1) and a worker are
\* both blocked on condition_.
C3_Witness ==
    /\ Len(pushed) = 2 /\ pushed[2].timeoutMs = 0
    /\ handle[2] # <<>>
    /\ \E c \in Callers : cop[c] = "wfad" /\ cpc[c] = "wfad_wait" /\ carg[c] < 0
    /\ \E w \in Workers : wpc[w] = "waiting"

\* C6 as claimed: once terminate() has set the flag, a caller inside
\* waitForAllDone(millsecond < 0) gets to its return.
C6_WaitEndsOnTerminate ==
    \A c \in Callers :
        (bTerminate_ /\ cop[c] = "wfad" /\ carg[c] < 0) ~> (cpc[c] = "ret")

\* Sequence p is the front part of sequence q.
IsPrefix(p, q) == Len(p) <= Len(q) /\ \A i \in 1..Len(p) : p[i] = q[i]

\* C11: once terminate() has set the shutdown flag, no envelope is dequeued
\* any more: the dequeue log stands still, every envelope in the queue stays
\* in it, and an envelope in the queue has never had its action invoked and its
\* future holds no outcome, now and after every later step.
C11_AbandonsQueued ==
    [][bTerminate_ =>
          /\ dequeued' = dequeued
          /\ IsPrefix(tasks_, tasks_')
          /\ \A i \in 1..Len(tasks_) :
                /\ invoked[tasks_[i]] = 0 /\ invoked'[tasks_[i]] = 0
                /\ handle[tasks_[i]] = <<>> /\ handle'[tasks_[i]] = <<>>]_vars

\* C11 witness: terminate() has returned after joining a worker that had run
\* the first envelope, and the second envelope is still in the queue, not run.
C11_Witness ==
    /\ bTerminate_ /\ termDone >= 1
    /\ tasks_ = <<2>> /\ invoked = <<1, 0>> /\ handle[2] = <<>>
    /\ \E w \in Workers : wpc[w] = "exited"

\* Some envelope other than t has a failure in its future.
FailureElsewhere(t) ==
    \E u \in 1..Len(handle) : u # t /\ handle[u] = <<"failure">>

\* C12: when an action ends, by returning or by raising a failure, exactly one
\* outcome is stored in its own future and nothing else of the pool changes:
\* no other future, the queue, the worker list, the shutdown flag, no other
\* worker.  The worker that holds a failed envelope goes on to decrement the
\* in-flight counter and back to the head of its loop, and does not stop.  And
\* (terminate() never called) every envelope without timeout is still run and
\* fulfilled after another one has failed.
C12_FailureIsLocal ==
    /\ [][\A w \in Workers : (wpc[w] = "running" /\ wpc'[w] # "running") =>
             /\ Len(handle'[wtask[w]]) = 1
             /\ \A u \in 1..Len(handle) : u # wtask[w] => handle'[u] = handle[u]
             /\ wpc'[w] = "dec"
             /\ \A v \in Workers : v # w => wpc'[v] = wpc[v]
             /\ UNCHANGED <<tasks_, threads_, bTerminate_, atomic_, aborted,
                            dequeued, invoked, wtask>>]_vars
    /\ [][\A w \in Workers :
             (wtask[w] # 0 /\ handle[wtask[w]] = <<"failure">> /\ wpc'[w] # wpc[w]) =>
                 \/ wpc[w] = "dec" /\ wpc'[w] = "notify" /\ atomic_' = atomic_ - 1
                 \/ wpc[w] = "notify" /\ wpc'[w] = "loop"]_vars
    /\ \A t \in 1..MaxTasks :
          (PushedNoTimeout(t) /\ threads_ # <<>> /\ FailureElsewhere(t)) ~> Fulfilled(t)

\* C12 witness: the first envelope failed, the worker that ran it then ran the
\* second, which returned a value, and the in-flight counter is back at 0.
C12_Witness ==
    /\ handle = <<<<"failure">>, <<"value">>>>
    /\ Len(threads_) = 1 /\ wpc[1] = "waiting"
    /\ atomic_ = 0 /\ ~bTerminate_ /\ ~aborted

\* C13 as claimed: under fair scheduling, with every action returning, a
\* terminate() call that has begun gets to its return, in a process that is
\* still alive.
C13_TerminateReturns ==
    \A c \in Callers : (cop[c] = "terminate") ~> (cpc[c] = "ret" /\ ~aborted)

\* C14: from the return of a terminate() until start() spawns workers again
\* (and the process lives), every worker has left run() or was never spawned:
\* none holds an envelope, none is in or before an action, and no action is
\* invoked in any later step.
C14_NoWorkAfterTerminate ==
    [][(termDone >= 1 /\ ~aborted) =>
          /\ \A w \in Workers : wpc[w] \in {"none", "exited"} /\ ~InFlight(w)
          /\ atomic_ = 0
          /\ (termDone' >= 1 =>
                 /\ dequeued' = dequeued
                 /\ \A t \in 1..Len(invoked) : invoked'[t] = invoked[t])]_vars

\* C14 witness: terminate() has just returned on a pool of two workers, both
\* now out of run(), one of which had run an envelope to its end.
C14_Witness ==
    /\ termDone = 1 /\ ~aborted
    /\ \E c \in Callers : cpc[c] = "ret" /\ cop[c] = "terminate"
    /\ wpc[1] = "exited" /\ wpc[2] = "exited"
    /\ Len(pushed) >= 1 /\ invoked[1] = 1 /\ Len(handle[1]) = 1

\* The step in which worker w leaves run().
WorkerStops(w) == wpc[w] # "exited" /\ wpc'[w] = "exited"

\* C15 as claimed: a worker leaves run() only when the pool is terminating and
\* the queue is empty; a worker that is done with an envelope and finds the
\* pool terminating with envelopes still queued dequeues the next one.
C15_Original ==
    [][\A w \in Workers : WorkerStops(w) => (bTerminate_ /\ tasks_ = <<>>)]_vars

\* C15 amended: a worker leaves run() only when the pool is terminating, at
\* the test at the head of its loop, whatever is in the queue; and a worker
\* that finds the pool terminating dequeues nothing: the queue is as it was
\* when it leaves.
C15_StopsOnFlagAlone ==
    [][\A w \in Workers :
          /\ WorkerStops(w) => (bTerminate_ /\ wpc[w] = "loop" /\ tasks_' = tasks_)
          /\ (bTerminate_ /\ wpc'[w] # wpc[w]) => (wtask'[w] = 0 \/ wtask'[w] = wtask[w])]_vars

\* C15 witness: a worker has run the first envelope to its end and left run()
\* with the second still in the queue.
C15_Witness ==
    /\ Len(threads_) = 1 /\ wpc[1] = "exited" /\ wtask[1] = 0
    /\ handle = <<<<"value">>, <<>>>> /\ tasks_ = <<2>>

\* C16: where terminate() is never called and every action returns, a caller
\* inside waitForAllDone(millsecond < 0) on a pool with at least one worker
\* gets to its return, with the value true.
C16_WaitEndsWhenIdle ==
    \A c \in Callers :
        (cop[c] = "wfad" /\ carg[c] < 0 /\ threads_ # <<>>)
            ~> (cop[c] = "wfad" /\ cpc[c] = "ret" /\ cret[c] = TRUE)

\* C16 witness: a caller of waitForAllDone(-1) that was blocked has been woken
\* and found the queue empty, after two workers ran one envelope each and
\* the in-flight counter came back to 0.
C16_Witness ==
    /\ \E c \in Callers : cop[c] = "wfad" /\ carg[c] < 0 /\ cpc[c] = "wfad_woken"
    /\ Len(threads_) = 2 /\ tasks_ = <<>> /\ atomic_ = 0
    /\ Len(handle) = 2 /\ handle[1] # <<>> /\ handle[2] # <<>>
    /\ \E w \in Workers : wpc[w] = "loop" /\ dequeued[2].task = 2

\* The workers, and the callers, that a step wakes from their wait on
\* condition_.
WokenWorkers == {w \in Workers : wpc[w] = "waiting" /\ wpc'[w] = "woken"}
WokenCallers == {c \in Callers : cpc[c] = "wfad_wait" /\ cpc'[c] = "wfad_woken"}

\* C17 as claimed: a push that finds at least one worker blocked in get()
\* wakes exactly one worker and no caller blocked in waitForAllDone.
C17_PushWakesWorker ==
    [][(Len(pushed') > Len(pushed) /\ \E w \in Workers : wpc[w] = "waiting") =>
          (Cardinality(WokenWorkers) = 1 /\ WokenCallers = {})]_vars

\* C18 as claimed: over the life of the pool no worker's handle has join()
\* called on it twice, and threads_.clear() never drops a handle that is
\* still joinable (one that nobody has joined).
C18_JoinedExactlyOnce ==
    /\ \A w \in Workers : joinCalls[w] <= 1
    /\ ~aborted

\* C19: the shutdown flag, once set, stays set in every step.  A start() on
\* an empty worker list with the flag set returns true and spawns threadNum_
\* workers; workers spawned so are only ever at the head of run() or out of
\* it; and with the flag set no envelope is dequeued, so that none in the
\* queue, pushed before the flag was set or after, ever has its action invoked.
C19_FlagStaysSet ==
    /\ [][bTerminate_ => bTerminate_']_vars
    /\ [][\A c \in Callers : (StartReturns(c) /\ bTerminate_ /\ threads_ = <<>>) =>
             (cret'[c] = TRUE /\ getThreadNum' = threadNum_ /\ startedWith' = threadNum_)]_vars
    /\ [][(bTerminate_ /\ startedWith >= 0 /\ ~aborted) =>
             \A i \in 1..Len(threads_) : wpc[threads_[i].w] \in {"loop", "exited"}]_vars
    /\ [][bTerminate_ =>
             /\ Len(dequeued') = Len(dequeued)
             /\ \A i \in 1..Len(tasks_') : invoked'[tasks_'[i]] = 0]_vars

\* C19 witness: after a terminate(), start() has spawned two workers, both
\* have left run(), and two envelopes sit in the queue, never dequeued.
C19_Witness ==
    /\ bTerminate_ /\ startedWith = 2 /\ getThreadNum = 2
    /\ wpc[1] = "exited" /\ wpc[2] = "exited"
    /\ tasks_ = <<1, 2>> /\ dequeued = <<>> /\ invoked = <<0, 0>>

\* A step of caller c's terminate() call; the step in which it returns.
TerminateActs(c) ==
    cop'[c] = "terminate" /\ (cpc'[c] # cpc[c] \/ carg'[c] # carg[c])
TerminateReturns(c) ==
    cop[c] = "terminate" /\ cpc[c] = "term_clear" /\ cpc'[c] = "ret"

\* C20 as claimed: when terminate() returns, getJobNum() is 0.
C20_Original ==
    [][\A c \in Callers : TerminateReturns(c) => getJobNum' = 0]_vars

\* C20 amended: terminate() leaves the queue as it is: no step of a
\* terminate() call changes tasks_, and once the flag is set getJobNum()
\* never goes down, so when terminate() returns the envelopes that were
\* pending are all still counted.
C20_QueueKept ==
    [][/\ \A c \in Callers : TerminateActs(c) => tasks_' = tasks_
       /\ bTerminate_' => getJobNum' >= getJobNum
       /\ \A c \in Callers : TerminateReturns(c) =>
             getJobNum' = Len(pushed) - Len(dequeued)]_vars

\* C20 witness: terminate() has returned on a started pool and getJobNum()
\* is 2.
C20_Witness ==
    /\ \E c \in Callers : cpc[c] = "ret" /\ cop[c] = "terminate"
    /\ termDone = 1 /\ ~aborted
    /\ getJobNum = 2
    /\ \E w \in Workers : wpc[w] = "exited"

====
